---- MODULE Spec2Model ----
(***************************************************************************)
(* StableDiffusionGeneratorPipeline (ldm/invoke/generator/                 *)
(* diffusers_pipeline.py): the generation loop, its entry points and the   *)
(* classifier-free-guidance step, as a state machine.                      *)
(*                                                                         *)
(* A tensor is a record [shape, device, val]; val holds one integer per    *)
(* batch element.  The collaborators (tokenizer, text encoder, denoiser,   *)
(* scheduler, decoder, safety classifier) are deterministic functions of   *)
(* their arguments that may also raise; every call is logged in the run    *)
(* that made it.  A run is one generator object (or one call of a          *)
(* convenience entry point draining one).                                  *)
(***************************************************************************)
EXTENDS Integers, Sequences, FiniteSets, TLC

VARIABLES scheduler, safety, ext, run, guide

vars == <<scheduler, safety, ext, run, guide>>

(* ---------------------------------------------------------------- bounds *)

\* Largest num_inference_steps a caller asks for.
MaxSteps == 2

\* Largest guidance_scale drawn for the guidance arithmetic.
MaxScale == 3

\* Largest magnitude of one element of a drawn noise prediction.
MaxNoise == 1

(* ------------------------------------------------------------- constants *)

\* prepare_latents: latent height/width = pixel height/width // 8
LatentDownscale == 8

Runs == {1, 2}

Devices == {"cuda", "cpu"}

\* self.unet.device, self.unet.in_channels
UnetDevice == "cuda"
UnetInChannels == [in_channels |-> 4]

SchedulerKinds == {"ddim", "lms"}

\* scheduler.num_train_timesteps (scheduler configuration)
SchedulerConfig == [num_train_timesteps |-> 4]

(* --------------------------------------------------------------- tensors *)

NoTensor == [shape |-> <<>>, device |-> "none", val |-> <<>>]

Tensor(shape, device, val) == [shape |-> shape, device |-> device, val |-> val]

\* torch.cat([a, b]) along the batch axis
Cat(a, b) == a \o b

\* tensor.chunk(2) along the batch axis
Chunk2(s) ==
    LET h == (Len(s) + 1) \div 2
    IN  <<SubSeq(s, 1, h), SubSeq(s, h + 1, Len(s))>>

\* `t *= k` on the values of a tensor
Scaled(t, k) == [t EXCEPT !.val = [i \in DOMAIN t.val |-> t.val[i] * k]]

(* ---------------------------------------------------------- collaborators *)

\* scheduler.set_timesteps(n): the schedule of n timesteps, descending
Timesteps(n) ==
    [i \in 1..n |-> (n - i) * (SchedulerConfig.num_train_timesteps \div n)]

\* scheduler.init_noise_sigma: 1 for DDIM/PNDM, max sigma > 1 for LMS
InitNoiseSigma(kind) == IF kind = "lms" THEN 2 ELSE 1

\* a freshly constructed scheduler: no inference schedule set, its timesteps
\* are the whole training schedule
NewScheduler(kind) ==
    [kind |-> kind, is_set |-> FALSE, num_inference_steps |-> 0,
     timesteps |-> Timesteps(SchedulerConfig.num_train_timesteps),
     init_noise_sigma |-> InitNoiseSigma(kind)]

set_timesteps(sch, n) ==
    [sch EXCEPT !.is_set = TRUE, !.num_inference_steps = n,
                !.timesteps = Timesteps(n)]

\* scheduler.scale_model_input(x, t): pass-through
scale_model_input(sch, x, t) == x

\* tokenizer(prompt, padding, max_length, truncation): one row of ids per prompt
Tokenize(items) == [i \in DOMAIN items |-> 100 + items[i]]

\* text_encoder(ids)[0]: one embedding per row
TextEncoder(ids) == [i \in DOMAIN ids |-> ids[i] - 90]

\* unet(x, t, encoder_hidden_states = e).sample, same batch as x
Unet(x, t, e) ==
    [i \in DOMAIN x |-> x[i] + t + (IF i \in DOMAIN e THEN e[i] ELSE 0)]

\* scheduler.step(noise, t, latents).prev_sample
PrevSample(noise, t, latents) ==
    [latents EXCEPT !.val = [i \in DOMAIN latents.val |-> latents.val[i] - noise[i]]]

\* scheduler.step(...).pred_original_sample, which only some schedulers expose
PredOriginal(sch, noise, t, latents) ==
    IF sch.kind = "ddim"
    THEN [latents EXCEPT !.val = [i \in DOMAIN latents.val |-> latents.val[i] - 2 * noise[i]]]
    ELSE NoTensor

\* torch.randn(shape, generator = seed, device, dtype)
Randn(shape, seed) == Tensor(shape, UnetDevice, [i \in 1..shape[1] |-> seed + i - 1])

(* ------------------------------------------------- elements and call log *)

\* PipelineIntermediateState(run_id, step, timestep, latents, predicted_original)
IntermediateState(run_id, step, timestep, latents, predicted_original) ==
    [kind |-> "state", run_id |-> run_id, step |-> step, timestep |-> timestep,
     latents |-> latents, predicted_original |-> predicted_original,
     images |-> <<>>, nsfw_content_detected |-> <<>>]

\* StableDiffusionPipelineOutput(images, nsfw_content_detected)
PipelineOutput(images, nsfw) ==
    [kind |-> "final", run_id |-> "None", step |-> 0, timestep |-> 0,
     latents |-> NoTensor, predicted_original |-> NoTensor,
     images |-> images, nsfw_content_detected |-> nsfw]

\* Python's None where an element is expected
NoElement ==
    [kind |-> "None", run_id |-> "None", step |-> 0, timestep |-> 0,
     latents |-> NoTensor, predicted_original |-> NoTensor,
     images |-> <<>>, nsfw_content_detected |-> <<>>]

\* one collaborator call: its name, its timestep (or step count) and two arguments
Call(op, t, a, b) == [op |-> op, t |-> t, a |-> a, b |-> b]

Logged(rr, c) == [rr EXCEPT !.calls = Append(@, c)]

\* an exception that merely ends the generator, as if its body had returned
Raise_ends_quietly(rr, e) == [rr EXCEPT !.pc = "exhausted"]

\* an exception leaves the generator: it is finished and the consumer sees e
Raise(rr, e) == [rr EXCEPT !.pc = "raised", !.error = e]

\* `yield elem`: the generator suspends at pc with elem handed to the consumer
Yield(rr, pc, elem) == [rr EXCEPT !.pc = pc, !.out = Append(@, elem)]

\* the collaborators that may raise during one resumption
FailPoints == {"none", "text_encoder", "unet", "scheduler", "vae", "safety_checker"}

(* ------------------------------------------------------ pipeline methods *)

\* get_text_embeddings that puts the prompt's embeddings first
get_text_embeddings_cond_first(rr, prompt, opposing_prompt, do_cfg, batch_size, fail) ==
    LET text_input == Tokenize(prompt.items)
        r1 == Logged(rr, Call("tokenizer", 0, prompt.items, <<>>))
        r2 == Logged(r1, Call("text_encoder", 0, text_input, <<>>))
        text_embeddings == TextEncoder(text_input)
        anti == IF opposing_prompt.given /\ opposing_prompt.items # <<>>
                THEN opposing_prompt.items
                ELSE [i \in 1..batch_size |-> 0]
        text_anti_input == Tokenize(anti)
        r3 == Logged(r2, Call("tokenizer", 0, anti, <<>>))
        r4 == Logged(r3, Call("text_encoder", 0, text_anti_input, <<>>))
        uncond_embeddings == TextEncoder(text_anti_input)
    IN  IF fail = "text_encoder"
        THEN [run |-> r2, err |-> "text_encoder", emb |-> <<>>]
        ELSE IF do_cfg
        THEN [run |-> r4, err |-> "none", emb |-> Cat(text_embeddings, uncond_embeddings)]
        ELSE [run |-> r2, err |-> "none", emb |-> text_embeddings]

\* get_text_embeddings, lines 292-313.  Result: the run with the calls logged,
\* an error ("none" when it returns) and the embeddings.
get_text_embeddings(rr, prompt, opposing_prompt, do_cfg, batch_size, fail) ==
    LET text_input == Tokenize(prompt.items)
        r1 == Logged(rr, Call("tokenizer", 0, prompt.items, <<>>))
        r2 == Logged(r1, Call("text_encoder", 0, text_input, <<>>))
        text_embeddings == TextEncoder(text_input)
        anti == IF opposing_prompt.given /\ opposing_prompt.items # <<>>
                THEN opposing_prompt.items
                ELSE [i \in 1..batch_size |-> 0]
        text_anti_input == Tokenize(anti)
        r3 == Logged(r2, Call("tokenizer", 0, anti, <<>>))
        r4 == Logged(r3, Call("text_encoder", 0, text_anti_input, <<>>))
        uncond_embeddings == TextEncoder(text_anti_input)
    IN  IF fail = "text_encoder"
        THEN [run |-> r2, err |-> "text_encoder", emb |-> <<>>]
        ELSE IF do_cfg
        THEN [run |-> r4, err |-> "none", emb |-> Cat(uncond_embeddings, text_embeddings)]
        ELSE [run |-> r2, err |-> "none", emb |-> text_embeddings]

\* prepare_latents that accepts a supplied tensor of any shape
prepare_latents_no_shape_check(latents_arg, ex, batch_size, height, width, seed, sch) ==
    LET latents_shape == <<batch_size, UnetInChannels.in_channels,
                           height \div LatentDownscale, width \div LatentDownscale>>
        latents == IF latents_arg = "None" THEN Randn(latents_shape, seed) ELSE ex
        scaled == Scaled(latents, sch.init_noise_sigma)
    IN  IF latents.device # UnetDevice
        THEN [err |-> "ValueError:device", latents |-> NoTensor, ext |-> ex,
              initial |-> NoTensor]
        ELSE [err |-> "none", latents |-> scaled,
              ext |-> IF latents_arg = "None" THEN ex ELSE scaled,
              initial |-> latents]

\* prepare_latents that scales the tensor before it validates it
prepare_latents_scale_first(latents_arg, ex, batch_size, height, width, seed, sch) ==
    LET latents_shape == <<batch_size, UnetInChannels.in_channels,
                           height \div LatentDownscale, width \div LatentDownscale>>
        latents == IF latents_arg = "None" THEN Randn(latents_shape, seed) ELSE ex
        scaled == Scaled(latents, sch.init_noise_sigma)
        ext2 == IF latents_arg = "None" THEN ex ELSE scaled
    IN  IF latents_arg # "None" /\ ex.shape # latents_shape
        THEN [err |-> "ValueError:shape", latents |-> NoTensor, ext |-> ext2,
              initial |-> NoTensor]
        ELSE IF latents.device # UnetDevice
        THEN [err |-> "ValueError:device", latents |-> NoTensor, ext |-> ext2,
              initial |-> NoTensor]
        ELSE [err |-> "none", latents |-> scaled, ext |-> ext2, initial |-> latents]

\* prepare_latents, lines 352-375.  latents_arg is "None" or "ext", the
\* caller's tensor, which `latents *=` changes in place.  initial records the
\* tensor as it was before the scaling.
prepare_latents(latents_arg, ex, batch_size, height, width, seed, sch) ==
    LET latents_shape == <<batch_size, UnetInChannels.in_channels,
                           height \div LatentDownscale, width \div LatentDownscale>>
        latents == IF latents_arg = "None" THEN Randn(latents_shape, seed) ELSE ex
        scaled == Scaled(latents, sch.init_noise_sigma)
    IN  IF latents_arg # "None" /\ ex.shape # latents_shape
        THEN [err |-> "ValueError:shape", latents |-> NoTensor, ext |-> ex,
              initial |-> NoTensor]
        ELSE IF latents.device # UnetDevice
        THEN [err |-> "ValueError:device", latents |-> NoTensor, ext |-> ex,
              initial |-> NoTensor]
        ELSE [err |-> "none", latents |-> scaled,
              ext |-> IF latents_arg = "None" THEN ex ELSE scaled,
              initial |-> latents]

\* the guidance recombination with the two halves taken the other way round
Guided_halves_swapped(noise_pred, guidance_scale) ==
    LET halves == Chunk2(noise_pred)
        noise_pred_uncond == halves[2]
        noise_pred_text == halves[1]
    IN  [i \in DOMAIN noise_pred_uncond |->
            noise_pred_uncond[i]
              + guidance_scale * (noise_pred_text[i] - noise_pred_uncond[i])]

\* step, lines 265-267: the guidance recombination of the denoiser's output
Guided(noise_pred, guidance_scale) ==
    LET halves == Chunk2(noise_pred)
        noise_pred_uncond == halves[1]
        noise_pred_text == halves[2]
    IN  [i \in DOMAIN noise_pred_uncond |->
            noise_pred_uncond[i]
              + guidance_scale * (noise_pred_text[i] - noise_pred_uncond[i])]

\* step, lines 255 and 264-267: what is handed to scheduler.step
NoisePrediction(unet_sample, guidance_scale) ==
    IF guidance_scale > 1 THEN Guided(unet_sample, guidance_scale) ELSE unet_sample

\* the denoiser input of a step that doubles the batch whatever the scale
LatentModelInput_always_doubled(sch, latents, t, guidance_scale) ==
    scale_model_input(sch, Cat(latents.val, latents.val), t)

\* step, lines 257-259: what is handed to the denoiser
LatentModelInput(sch, latents, t, guidance_scale) ==
    scale_model_input(sch,
        IF guidance_scale > 1 THEN Cat(latents.val, latents.val) ELSE latents.val, t)

\* step, lines 253-270.  Result: the run with the calls logged, an error
\* and the scheduler's output.
step(rr, sch, t, latents, guidance_scale, text_embeddings, fail) ==
    LET latent_model_input == LatentModelInput(sch, latents, t, guidance_scale)
        r1 == Logged(rr, Call("unet", t, latent_model_input, text_embeddings))
        sample == Unet(latent_model_input, t, text_embeddings)
        noise_pred == NoisePrediction(sample, guidance_scale)
        r2 == Logged(r1, Call("scheduler.step", t, noise_pred, latents.val))
    IN  IF fail = "unet"
        THEN [run |-> r1, err |-> "unet", prev_sample |-> NoTensor,
              pred_original_sample |-> NoTensor]
        ELSE IF fail = "scheduler"
        THEN [run |-> r2, err |-> "scheduler", prev_sample |-> NoTensor,
              pred_original_sample |-> NoTensor]
        ELSE [run |-> r2, err |-> "none",
              prev_sample |-> PrevSample(noise_pred, t, latents),
              pred_original_sample |-> PredOriginal(sch, noise_pred, t, latents)]

\* decode_to_image, lines 283-290: one image per batch element, clamped to [0, 1]
decode_to_image(latents) ==
    [i \in DOMAIN latents.val |->
        IF latents.val[i] < 0 THEN 0 ELSE IF latents.val[i] > 1 THEN 1 ELSE latents.val[i]]

\* check_for_safety that skips the screening only when both parts are absent
check_for_safety_skip_if_both_absent(rr, cfg, output, flags, fail) ==
    LET r1 == Logged(rr, Call("feature_extractor", 0, output.images, <<>>))
        r2 == Logged(r1, Call("safety_checker", 0, output.images, <<>>))
        screened == [i \in DOMAIN output.images |->
                        IF flags[i] THEN 0 ELSE output.images[i]]
    IN  IF ~cfg.feature_extractor /\ ~cfg.safety_checker
        THEN [run |-> rr, err |-> "none", output |-> output]
        ELSE IF fail = "safety_checker"
        THEN [run |-> r2, err |-> "safety_checker", output |-> output]
        ELSE [run |-> r2, err |-> "none",
              output |-> PipelineOutput(screened, [i \in DOMAIN output.images |-> flags[i]])]

\* check_for_safety, lines 272-281.  flags is what the classifier answers.
check_for_safety(rr, cfg, output, flags, fail) ==
    LET r1 == Logged(rr, Call("feature_extractor", 0, output.images, <<>>))
        r2 == Logged(r1, Call("safety_checker", 0, output.images, <<>>))
        screened == [i \in DOMAIN output.images |->
                        IF flags[i] THEN 0 ELSE output.images[i]]
    IN  IF ~cfg.feature_extractor \/ ~cfg.safety_checker
        THEN [run |-> rr, err |-> "none", output |-> output]
        ELSE IF fail = "safety_checker"
        THEN [run |-> r2, err |-> "safety_checker", output |-> output]
        ELSE [run |-> r2, err |-> "none",
              output |-> PipelineOutput(screened, [i \in DOMAIN output.images |-> flags[i]])]

(* ------------------------------------------------------------ generators *)

NoArgs ==
    [prompt |-> [isStr |-> TRUE, items |-> <<>>],
     opposing_prompt |-> [given |-> FALSE, items |-> <<>>],
     height |-> 0, width |-> 0, num_inference_steps |-> 0, guidance_scale |-> 0,
     seed |-> 0, latents |-> "None", text_embeddings |-> <<>>,
     run_id |-> "None", callback |-> FALSE]

\* a run slot before any entry point was called on it
IdleRun ==
    [pc |-> "idle", entry |-> "none", args |-> NoArgs,
     latents |-> NoTensor, text_embeddings |-> <<>>, run_id |-> "None",
     iter |-> <<>>, i |-> 0, initial |-> NoTensor,
     out |-> <<>>, calls |-> <<>>, callbacks |-> <<>>,
     error |-> "none", result |-> NoElement, returned |-> FALSE]

Result(rr, sch, ex) == [run |-> rr, scheduler |-> sch, ext |-> ex]

\* generate_from_embeddings, lines 232-237: from its first line to the first
\* yield.  ref says whether latents is the caller's tensor ("ext").
generate_from_embeddings_head(rr, sch, ex, latents, ref, text_embeddings, token) ==
    LET r1 == IF rr.args.run_id = "None"
              THEN Logged(rr, Call("secrets.token_urlsafe", 0, <<>>, <<>>))
              ELSE rr
        run_id == IF rr.args.run_id = "None" THEN token ELSE rr.args.run_id
        r2 == Logged(r1, Call("scheduler.init_noise_sigma", sch.init_noise_sigma, <<>>, <<>>))
        scaled == Scaled(latents, sch.init_noise_sigma)
        r3 == [r2 EXCEPT !.latents = scaled, !.text_embeddings = text_embeddings,
                         !.run_id = run_id,
                         !.initial = IF @ = NoTensor THEN latents ELSE @]
    IN  Result(Yield(r3, "suspended_init",
                     IntermediateState(run_id, -1, SchedulerConfig.num_train_timesteps,
                                       scaled, NoTensor)),
               sch,
               IF ref = "ext" THEN scaled ELSE ex)

\* the size check with the width forgotten
SizeInvalid_height_only(height, width) == height % 8 # 0

\* generate, line 216: the size check
SizeInvalid(height, width) == height % 8 # 0 \/ width % 8 # 0

\* generate with the schedule set only after the latents were prepared
generate_head_prepare_first(rr, sch, ex, token, fail) ==
    LET a == rr.args
        batch_size == IF a.prompt.isStr THEN 1 ELSE Len(a.prompt.items)
        te == get_text_embeddings(rr, a.prompt, a.opposing_prompt,
                                  a.guidance_scale > 1, batch_size, fail)
        r1 == IF a.latents = "None"
              THEN Logged(te.run, Call("torch.randn", a.seed, <<>>, <<>>))
              ELSE te.run
        pl == prepare_latents(a.latents, ex, batch_size, a.height, a.width, a.seed, sch)
        r2 == IF pl.err = "none"
              THEN [Logged(r1, Call("scheduler.init_noise_sigma", sch.init_noise_sigma,
                                    <<>>, <<>>))
                      EXCEPT !.initial = pl.initial]
              ELSE r1
        sch1 == set_timesteps(sch, a.num_inference_steps)
        r3 == Logged(r2, Call("scheduler.set_timesteps", a.num_inference_steps, <<>>, <<>>))
    IN  IF SizeInvalid(a.height, a.width)
        THEN Result(Raise(rr, "ValueError:size"), sch, ex)
        ELSE IF te.err # "none"
        THEN Result(Raise(te.run, te.err), sch, ex)
        ELSE IF pl.err # "none"
        THEN Result(Raise(r2, pl.err), sch, pl.ext)
        ELSE generate_from_embeddings_head(r3, sch1, pl.ext, pl.latents, a.latents,
                                           te.emb, token)

\* generate, lines 211-228: from its first line to the first yield of the
\* generator it delegates to.
generate_head(rr, sch, ex, token, fail) ==
    LET a == rr.args
        batch_size == IF a.prompt.isStr THEN 1 ELSE Len(a.prompt.items)
        do_classifier_free_guidance == a.guidance_scale > 1
        te == get_text_embeddings(rr, a.prompt, a.opposing_prompt,
                                  do_classifier_free_guidance, batch_size, fail)
        sch1 == set_timesteps(sch, a.num_inference_steps)
        r1 == Logged(te.run, Call("scheduler.set_timesteps", a.num_inference_steps, <<>>, <<>>))
        r2 == IF a.latents = "None"
              THEN Logged(r1, Call("torch.randn", a.seed, <<>>, <<>>))
              ELSE r1
        pl == prepare_latents(a.latents, ex, batch_size, a.height, a.width, a.seed, sch1)
        r3 == IF pl.err = "none"
              THEN [Logged(r2, Call("scheduler.init_noise_sigma", sch1.init_noise_sigma,
                                    <<>>, <<>>))
                      EXCEPT !.initial = pl.initial]
              ELSE r2
    IN  IF SizeInvalid(a.height, a.width)
        THEN Result(Raise(rr, "ValueError:size"), sch, ex)
        ELSE IF te.err # "none"
        THEN Result(Raise(te.run, te.err), sch, ex)
        ELSE IF pl.err # "none"
        THEN Result(Raise(r3, pl.err), sch1, pl.ext)
        ELSE generate_from_embeddings_head(r3, sch1, pl.ext, pl.latents, a.latents,
                                           te.emb, token)

\* the end of the generator with the screening done before the decoding
generate_from_embeddings_tail_screen_first(rr, sch, ex, cfg, flags, fail) ==
    LET image == decode_to_image(rr.latents)
        output == PipelineOutput(image, <<>>)
        cs == check_for_safety(rr, cfg, output, flags, fail)
        r1 == Logged(cs.run, Call("vae.decode", 0, rr.latents.val, <<>>))
    IN  IF cs.err # "none"
        THEN Result(Raise(cs.run, cs.err), sch, ex)
        ELSE IF fail = "vae"
        THEN Result(Raise(r1, "vae"), sch, ex)
        ELSE Result(Yield(r1, "suspended_final", cs.output), sch, ex)

\* generate_from_embeddings, lines 246-251: after the loop, to the last yield
generate_from_embeddings_tail(rr, sch, ex, cfg, flags, fail) ==
    LET r1 == Logged(rr, Call("vae.decode", 0, rr.latents.val, <<>>))
        image == decode_to_image(rr.latents)
        output == PipelineOutput(image, <<>>)
        cs == check_for_safety(r1, cfg, output, flags, fail)
    IN  IF fail = "vae"
        THEN Result(Raise(r1, "vae"), sch, ex)
        ELSE IF cs.err # "none"
        THEN Result(Raise(cs.run, cs.err), sch, ex)
        ELSE Result(Yield(cs.run, "suspended_final", cs.output), sch, ex)

\* the state of a loop that counts its steps from 1
step_state_from_one(rr, t, so) ==
    IntermediateState(rr.run_id, rr.i + 1, t, so.prev_sample, so.pred_original_sample)

\* the state of a loop that draws a new identifier for every state
step_state_fresh_id(rr, t, so) ==
    IntermediateState(IF rr.args.run_id = "None" THEN "tok-3" ELSE rr.args.run_id,
                      rr.i, t, so.prev_sample, so.pred_original_sample)

\* generate_from_embeddings, lines 243-244: the state yielded for the i-th
\* timestep t, so being what step returned
step_state(rr, t, so) ==
    IntermediateState(rr.run_id, rr.i, t, so.prev_sample, so.pred_original_sample)

\* a loop that hands every step the latent it started from
generate_from_embeddings_loop_no_chain(rr, sch, ex, cfg, flags, fail) ==
    IF rr.iter = <<>>
    THEN generate_from_embeddings_tail(rr, sch, ex, cfg, flags, fail)
    ELSE LET t == Head(rr.iter)
             so == step(rr, sch, t, rr.latents, rr.args.guidance_scale,
                        rr.text_embeddings, fail)
             r1 == [so.run EXCEPT !.iter = Tail(rr.iter), !.i = rr.i + 1]
         IN  IF so.err # "none"
             THEN Result(Raise(so.run, so.err), sch, ex)
             ELSE Result(Yield(r1, "suspended_step", step_state(rr, t, so)), sch, ex)

\* a loop that decodes as soon as the last step is done, before the consumer
\* asks for the final output
generate_from_embeddings_loop_decode_ahead(rr, sch, ex, cfg, flags, fail) ==
    IF rr.iter = <<>>
    THEN generate_from_embeddings_tail(rr, sch, ex, cfg, flags, fail)
    ELSE LET t == Head(rr.iter)
             so == step(rr, sch, t, rr.latents, rr.args.guidance_scale,
                        rr.text_embeddings, fail)
             r0 == IF Tail(rr.iter) = <<>>
                   THEN Logged(so.run, Call("vae.decode", 0, so.prev_sample.val, <<>>))
                   ELSE so.run
             r1 == [r0 EXCEPT !.latents = so.prev_sample,
                              !.iter = Tail(rr.iter), !.i = rr.i + 1]
         IN  IF so.err # "none"
             THEN Result(Raise(so.run, so.err), sch, ex)
             ELSE Result(Yield(r1, "suspended_step", step_state(rr, t, so)), sch, ex)

\* generate_from_embeddings, lines 239-244: one turn of the loop over
\* rr.iter, the timesteps not yet visited, or the tail when none is left
generate_from_embeddings_loop(rr, sch, ex, cfg, flags, fail) ==
    IF rr.iter = <<>>
    THEN generate_from_embeddings_tail(rr, sch, ex, cfg, flags, fail)
    ELSE LET t == Head(rr.iter)
             so == step(rr, sch, t, rr.latents, rr.args.guidance_scale,
                        rr.text_embeddings, fail)
             r1 == [so.run EXCEPT !.latents = so.prev_sample,
                                  !.iter = Tail(rr.iter), !.i = rr.i + 1]
         IN  IF so.err # "none"
             THEN Result(Raise(so.run, so.err), sch, ex)
             ELSE Result(Yield(r1, "suspended_step", step_state(rr, t, so)), sch, ex)

\* next(generator): the generator runs from where it is suspended to its next
\* yield, to the exception that ends it, or to its end
Resume(rr, sch, ex, cfg, token, flags, fail) ==
    CASE rr.pc = "created" /\ rr.entry \in {"generate", "__call__"} ->
            generate_head(rr, sch, ex, token, fail)
      [] rr.pc = "created" ->
            generate_from_embeddings_head(rr, sch, ex, ex, "ext",
                                          rr.args.text_embeddings, token)
      [] rr.pc = "suspended_init" ->
            \* line 239 reads self.scheduler.timesteps when the loop starts
            generate_from_embeddings_loop([rr EXCEPT !.iter = sch.timesteps, !.i = 0],
                                          sch, ex, cfg, flags, fail)
      [] rr.pc = "suspended_step" ->
            generate_from_embeddings_loop(rr, sch, ex, cfg, flags, fail)
      [] rr.pc = "suspended_final" ->
            Result([rr EXCEPT !.pc = "exhausted"], sch, ex)
      [] OTHER -> Result(rr, sch, ex)

Resumable(rr) ==
    rr.pc \in {"created", "suspended_init", "suspended_step", "suspended_final"}

(* ---------------------------------------------- convenience entry points *)

Last(seq) == seq[Len(seq)]

\* __call__ that swallows the exception of the generator and returns what it has
call_iteration_swallow(g) ==
    CASE g.pc = "raised" -> [g EXCEPT !.returned = TRUE]
      [] g.pc = "exhausted" ->
            IF g.result = NoElement
            THEN [g EXCEPT !.error = "AssertionError"]
            ELSE [g EXCEPT !.returned = TRUE]
      [] OTHER ->
            [g EXCEPT !.result = Last(g.out),
                      !.callbacks = IF g.args.callback THEN Append(@, Last(g.out)) ELSE @]

\* __call__, lines 172-181: one turn of its loop over generate(...), or the
\* lines after the loop when the generator is exhausted.  g is the generator
\* after next() was called on it.
call_iteration(g) ==
    CASE g.pc = "raised" -> g
      [] g.pc = "exhausted" ->
            IF g.result = NoElement
            THEN [g EXCEPT !.error = "AssertionError"]
            ELSE [g EXCEPT !.returned = TRUE]
      [] OTHER ->
            [g EXCEPT !.result = Last(g.out),
                      !.callbacks = IF g.args.callback THEN Append(@, Last(g.out)) ELSE @]

\* image_from_embeddings that gives the callback every element
image_from_embeddings_iteration_every_element(g) ==
    CASE g.pc = "raised" -> g
      [] g.pc = "exhausted" ->
            IF g.result = NoElement
            THEN [g EXCEPT !.error = "AssertionError"]
            ELSE [g EXCEPT !.returned = TRUE]
      [] OTHER ->
            [g EXCEPT !.result = Last(g.out),
                      !.callbacks = IF g.args.callback THEN Append(@, Last(g.out)) ELSE @]

\* image_from_embeddings that keeps only intermediate states as its result
image_from_embeddings_iteration_returns_state(g) ==
    CASE g.pc = "raised" -> g
      [] g.pc = "exhausted" ->
            IF g.result = NoElement
            THEN [g EXCEPT !.error = "AssertionError"]
            ELSE [g EXCEPT !.returned = TRUE]
      [] OTHER ->
            [g EXCEPT !.result = IF Last(g.out).kind = "state" THEN Last(g.out) ELSE @,
                      !.callbacks = IF g.args.callback /\ Last(g.out).kind = "state"
                                    THEN Append(@, Last(g.out)) ELSE @]

\* image_from_embeddings, lines 188-195: the same loop over
\* generate_from_embeddings(...), the callback for intermediate states only
image_from_embeddings_iteration(g) ==
    CASE g.pc = "raised" -> g
      [] g.pc = "exhausted" ->
            IF g.result = NoElement
            THEN [g EXCEPT !.error = "AssertionError"]
            ELSE [g EXCEPT !.returned = TRUE]
      [] OTHER ->
            [g EXCEPT !.result = Last(g.out),
                      !.callbacks = IF g.args.callback /\ Last(g.out).kind = "state"
                                    THEN Append(@, Last(g.out)) ELSE @]

(* ---------------------------------------------------------------- inputs *)

Prompts == {[isStr |-> TRUE, items |-> <<1>>], [isStr |-> FALSE, items |-> <<1, 2>>]}

\* no opposing prompt, or one opposing prompt per prompt
OpposingPrompts(prompt) ==
    {[given |-> FALSE, items |-> <<>>],
     [given |-> TRUE, items |-> [i \in DOMAIN prompt.items |-> 3]]}

Sizes == {<<8, 8>>, <<16, 8>>, <<12, 8>>, <<8, 9>>}

StepCounts == 1..MaxSteps

GuidanceScales == {0, 1, 2}

Seeds == {1}

RunIds == {"None", "run-A"}

\* what secrets.token_urlsafe(ID_LENGTH) may return
Tokens == {"tok-1", "tok-2"}

\* the tensor a caller may hand in as latents
ExtTensors ==
    {Tensor(<<1, 4, 1, 1>>, "cuda", <<3>>), Tensor(<<2, 4, 1, 1>>, "cuda", <<3, 5>>),
     Tensor(<<1, 4, 2, 1>>, "cuda", <<3>>), Tensor(<<1, 4, 1, 1>>, "cpu", <<3>>)}

\* embeddings a caller of the embeddings-driven entry points computed
\* beforehand for a batch of b: [unconditional; conditional] when guided
Embeddings(b, guidance_scale) ==
    IF guidance_scale > 1
    THEN Cat([i \in 1..b |-> 10], [i \in 1..b |-> 10 + i])
    ELSE [i \in 1..b |-> 10 + i]

SafetyConfigs == [feature_extractor : BOOLEAN, safety_checker : BOOLEAN]

NoGuide == [sample |-> <<>>, guidance_scale |-> 0, noise_pred |-> <<>>, applied |-> FALSE]

(* --------------------------------------------------------------- actions *)

Init ==
    /\ scheduler \in {NewScheduler(k) : k \in SchedulerKinds}
    /\ safety \in SafetyConfigs
    /\ ext \in ExtTensors
    /\ run = [r \in Runs |-> IdleRun]
    /\ guide = NoGuide

\* the caller initialises the scheduler itself before using the
\* embeddings-driven generator
CallerSetTimesteps(n) ==
    /\ \A r \in Runs : run[r].pc = "idle"
    /\ ~scheduler.is_set
    /\ scheduler' = set_timesteps(scheduler, n)
    /\ UNCHANGED <<safety, ext, run, guide>>

\* generate(prompt, opposing_prompt=, height=, ...): creates the generator;
\* none of its body runs yet
Start_generate(r, prompt, opposing, size, n, g, latents, run_id) ==
    /\ run[r].pc = "idle"
    /\ run' = [run EXCEPT ![r] =
          [IdleRun EXCEPT !.pc = "created", !.entry = "generate",
              !.args = [NoArgs EXCEPT !.prompt = prompt, !.opposing_prompt = opposing,
                           !.height = size[1], !.width = size[2],
                           !.num_inference_steps = n, !.guidance_scale = g,
                           !.seed = CHOOSE sd \in Seeds : TRUE,
                           !.latents = latents, !.run_id = run_id]]]
    /\ UNCHANGED <<scheduler, safety, ext, guide>>

\* pipeline(prompt, height, width, ..., callback): __call__ up to its loop
Start_call(r, prompt, size, n, g, latents, callback) ==
    /\ run[r].pc = "idle"
    /\ run' = [run EXCEPT ![r] =
          [IdleRun EXCEPT !.pc = "created", !.entry = "__call__",
              !.args = [NoArgs EXCEPT !.prompt = prompt,
                           !.height = size[1], !.width = size[2],
                           !.num_inference_steps = n, !.guidance_scale = g,
                           !.seed = CHOOSE sd \in Seeds : TRUE,
                           !.latents = latents, !.callback = callback]]]
    /\ UNCHANGED <<scheduler, safety, ext, guide>>

\* generate_from_embeddings(latents, text_embeddings, guidance_scale, run_id)
Start_generate_from_embeddings(r, g, run_id) ==
    /\ run[r].pc = "idle"
    /\ run' = [run EXCEPT ![r] =
          [IdleRun EXCEPT !.pc = "created", !.entry = "generate_from_embeddings",
              !.args = [NoArgs EXCEPT !.guidance_scale = g, !.latents = "ext",
                           !.text_embeddings = Embeddings(ext.shape[1], g),
                           !.run_id = run_id]]]
    /\ UNCHANGED <<scheduler, safety, ext, guide>>

\* image_from_embeddings(...), lines 187-188: set_timesteps, then up to its loop
Start_image_from_embeddings(r, n, g, run_id, callback) ==
    /\ run[r].pc = "idle"
    /\ scheduler' = set_timesteps(scheduler, n)
    /\ run' = [run EXCEPT ![r] =
          [IdleRun EXCEPT !.pc = "created", !.entry = "image_from_embeddings",
              !.calls = <<Call("scheduler.set_timesteps", n, <<>>, <<>>)>>,
              !.args = [NoArgs EXCEPT !.num_inference_steps = n, !.guidance_scale = g,
                           !.latents = "ext",
                           !.text_embeddings = Embeddings(ext.shape[1], g),
                           !.run_id = run_id, !.callback = callback]]]
    /\ UNCHANGED <<safety, ext, guide>>

\* the choices one resumption of run r can meet
TokenChoices(rr) ==
    IF rr.pc = "created" /\ rr.args.run_id = "None" THEN Tokens ELSE {"tok-1"}

FlagChoices(rr) ==
    IF rr.pc \in {"suspended_init", "suspended_step"}
       /\ safety.feature_extractor /\ safety.safety_checker
    THEN [1..Len(rr.latents.val) -> BOOLEAN]
    ELSE {[i \in 1..Len(rr.latents.val) |-> FALSE]}

\* the collaborators the next resumption of rr calls, any of which may raise
FailChoices(rr) ==
    CASE rr.pc = "created" /\ rr.entry \in {"generate", "__call__"} ->
            {"none", "text_encoder"}
      [] rr.pc = "suspended_init" /\ scheduler.timesteps # <<>> ->
            {"none", "unet", "scheduler"}
      [] rr.pc = "suspended_step" /\ rr.iter # <<>> ->
            {"none", "unet", "scheduler"}
      [] rr.pc \in {"suspended_init", "suspended_step"} ->
            {"none", "vae", "safety_checker"}
      [] OTHER -> {"none"}

\* the consumer of a raw generator asks for its next element
NextElement(r) ==
    /\ run[r].entry \in {"generate", "generate_from_embeddings"}
    /\ Resumable(run[r])
    /\ \E token \in TokenChoices(run[r]), flags \in FlagChoices(run[r]), fail \in FailChoices(run[r]) :
          LET res == Resume(run[r], scheduler, ext, safety, token, flags, fail)
          IN  /\ run' = [run EXCEPT ![r] = res.run]
              /\ scheduler' = res.scheduler
              /\ ext' = res.ext
    /\ UNCHANGED <<safety, guide>>

\* one turn of the loop of __call__
CallIteration(r) ==
    /\ run[r].entry = "__call__"
    /\ Resumable(run[r])
    /\ \E token \in TokenChoices(run[r]), flags \in FlagChoices(run[r]), fail \in FailChoices(run[r]) :
          LET res == Resume(run[r], scheduler, ext, safety, token, flags, fail)
          IN  /\ run' = [run EXCEPT ![r] = call_iteration(res.run)]
              /\ scheduler' = res.scheduler
              /\ ext' = res.ext
    /\ UNCHANGED <<safety, guide>>

\* one turn of the loop of image_from_embeddings
ImageFromEmbeddingsIteration(r) ==
    /\ run[r].entry = "image_from_embeddings"
    /\ Resumable(run[r])
    /\ \E token \in TokenChoices(run[r]), flags \in FlagChoices(run[r]), fail \in FailChoices(run[r]) :
          LET res == Resume(run[r], scheduler, ext, safety, token, flags, fail)
          IN  /\ run' = [run EXCEPT ![r] = image_from_embeddings_iteration(res.run)]
              /\ scheduler' = res.scheduler
              /\ ext' = res.ext
    /\ UNCHANGED <<safety, guide>>

\* one pipeline, one run at a time, every entry point
Next ==
    \/ \E n \in StepCounts : CallerSetTimesteps(n)
    \/ \E p \in Prompts, sz \in Sizes, n \in StepCounts, g \in GuidanceScales,
          l \in {"None", "ext"}, id \in RunIds :
          \E o \in OpposingPrompts(p) : Start_generate(1, p, o, sz, n, g, l, id)
    \/ \E p \in Prompts, sz \in Sizes, n \in StepCounts, g \in GuidanceScales,
          l \in {"None", "ext"}, cb \in BOOLEAN : Start_call(1, p, sz, n, g, l, cb)
    \/ \E g \in GuidanceScales, id \in RunIds : Start_generate_from_embeddings(1, g, id)
    \/ \E n \in StepCounts, g \in GuidanceScales, id \in RunIds, cb \in BOOLEAN :
          Start_image_from_embeddings(1, n, g, id, cb)
    \/ NextElement(1)
    \/ CallIteration(1)
    \/ ImageFromEmbeddingsIteration(1)

Spec == Init /\ [][Next]_vars

\* one pipeline, two generators made by generate, their consumers pulling
\* in any order
NextConc ==
    \E r \in Runs :
        \/ \E n \in StepCounts :
              Start_generate(r, [isStr |-> TRUE, items |-> <<1>>],
                             [given |-> FALSE, items |-> <<>>], <<8, 8>>, n, 1, "None",
                             IF r = 1 THEN "run-A" ELSE "run-B")
        \/ NextElement(r)

SpecConc == Init /\ [][NextConc]_vars

\* one pipeline, one caller-supplied latent tensor, two runs of generate one
\* after the other on that same tensor
InitReuse ==
    /\ scheduler \in {NewScheduler(k) : k \in SchedulerKinds}
    /\ safety = [feature_extractor |-> FALSE, safety_checker |-> FALSE]
    /\ ext \in ExtTensors
    /\ run = [r \in Runs |-> IdleRun]
    /\ guide = NoGuide

\* once the first run is drained, the caller hands the same tensor to generate
\* again, with another prompt and the same size, step count and scale
ReuseLatents(prompt, opposing) ==
    /\ run[1].pc = "exhausted"
    /\ Start_generate(2, prompt, opposing, <<run[1].args.height, run[1].args.width>>,
                      run[1].args.num_inference_steps, run[1].args.guidance_scale,
                      "ext", "run-B")

NextReuse ==
    \/ \E p \in Prompts, n \in StepCounts, g \in GuidanceScales :
          \E o \in OpposingPrompts(p) : Start_generate(1, p, o, <<8, 8>>, n, g, "ext", "run-A")
    \/ NextElement(1)
    \/ \E p \in Prompts : \E o \in OpposingPrompts(p) : ReuseLatents(p, o)
    \/ NextElement(2)

SpecReuse == InitReuse /\ [][NextReuse]_vars

\* the guidance arithmetic of step on its own: a denoiser output for a batch
\* of 1 or 2 (doubled when guided) and a guidance scale are drawn, and the
\* step computes what it hands to the scheduler
Batches == {1, 2}

InitStep ==
    /\ scheduler = NewScheduler("ddim")
    /\ safety = [feature_extractor |-> FALSE, safety_checker |-> FALSE]
    /\ ext = Tensor(<<1, 4, 1, 1>>, "cuda", <<3>>)
    /\ run = [r \in Runs |-> IdleRun]
    /\ \E g \in 0..MaxScale, b \in Batches :
          \E sample \in [1..(IF g > 1 THEN 2 * b ELSE b) -> (-MaxNoise)..MaxNoise] :
              guide = [NoGuide EXCEPT !.sample = sample, !.guidance_scale = g]

ApplyGuidance ==
    /\ ~guide.applied
    /\ guide' = [guide EXCEPT !.applied = TRUE,
                     !.noise_pred = NoisePrediction(guide.sample, guide.guidance_scale)]
    /\ UNCHANGED <<scheduler, safety, ext, run>>

NextStep == ApplyGuidance

SpecStep == InitStep /\ [][NextStep]_vars

(* ---------------------------------------------------------------- claims *)

\* the calls of run rr to collaborator op
CallsTo(rr, op) == {k \in DOMAIN rr.calls : rr.calls[k].op = op}

\* the latent shape generate expects for the arguments of run rr
ExpectedShape(rr) ==
    <<IF rr.args.prompt.isStr THEN 1 ELSE Len(rr.args.prompt.items), 4,
      rr.args.height \div 8, rr.args.width \div 8>>

\* C1: the sequence of generate for N steps is one state with step -1, then
\* N states with steps 0 .. N-1 in order, then one final output, N+2
\* elements when drained, and nothing after the final output.
C1_SequenceShape ==
    \A r \in Runs :
        LET rr == run[r]
            N == rr.args.num_inference_steps
        IN  rr.entry = "generate" =>
              /\ \A k \in DOMAIN rr.out :
                    IF k <= N + 1
                    THEN rr.out[k].kind = "state" /\ rr.out[k].step = k - 2
                    ELSE k = N + 2 /\ rr.out[k].kind = "final"
              /\ rr.pc = "suspended_final" => Len(rr.out) = N + 2
              /\ rr.pc = "exhausted" => Len(rr.out) = N + 2

C1_Witness ==
    /\ run[1].entry = "generate"
    /\ run[1].pc = "exhausted"
    /\ run[1].args.num_inference_steps >= 2
    /\ Len(run[1].out) = run[1].args.num_inference_steps + 2

\* C2: in a run started through generate the latent of the step -1 state is
\* the initial latent (sampled or supplied) times init_noise_sigma, once.
C2_ScaledOnce ==
    \A r \in Runs :
        LET rr == run[r]
        IN  (rr.entry \in {"generate", "__call__"} /\ rr.out # <<>>) =>
              rr.out[1].latents.val =
                  [i \in DOMAIN rr.initial.val |->
                      rr.initial.val[i] * scheduler.init_noise_sigma]

\* C3: two generators of one pipeline, pulled in any order, each yield their
\* own N+2 elements.
C3_RunsIndependent ==
    \A r \in Runs :
        (run[r].entry = "generate" /\ run[r].pc = "exhausted") =>
            Len(run[r].out) = run[r].args.num_inference_steps + 2

\* C4: a height or width that is no multiple of 8 ends generate and __call__
\* with the value error before any collaborator was called and before any
\* state was emitted.
C4_SizeFailsFast ==
    \A r \in Runs :
        LET rr == run[r]
        IN  (/\ rr.entry \in {"generate", "__call__"}
             /\ rr.pc # "created"
             /\ (rr.args.height % 8 # 0 \/ rr.args.width % 8 # 0)) =>
              /\ rr.pc = "raised"
              /\ rr.error = "ValueError:size"
              /\ rr.calls = <<>>
              /\ rr.out = <<>>
              /\ rr.callbacks = <<>>
              /\ ~rr.returned

C4_Witness ==
    /\ run[1].entry = "__call__"
    /\ run[1].args.width % 8 # 0
    /\ run[1].args.height % 8 = 0
    /\ run[1].error = "ValueError:size"

\* C5 as stated: a wrong shape or device of a supplied latent is reported
\* before the text encoder was invoked and before the schedule was changed.
C5_ValidationBeforeConditioning ==
    \A r \in Runs :
        LET rr == run[r]
        IN  rr.error \in {"ValueError:shape", "ValueError:device"} =>
              /\ CallsTo(rr, "text_encoder") = {}
              /\ CallsTo(rr, "scheduler.set_timesteps") = {}

\* C5, amended: a wrong shape or device of a supplied latent is reported
\* after the text encoder ran and the schedule was set for the requested
\* step count, and before the latent is scaled, before any denoiser,
\* scheduler step, decoder or safety call and before any state is emitted.
C5_ValidationBeforeDenoising ==
    \A r \in Runs :
        LET rr == run[r]
        IN  rr.error \in {"ValueError:shape", "ValueError:device"} =>
              /\ rr.pc = "raised"
              /\ CallsTo(rr, "text_encoder") # {}
              /\ CallsTo(rr, "scheduler.set_timesteps") # {}
              /\ scheduler.is_set
              /\ scheduler.num_inference_steps = rr.args.num_inference_steps
              /\ \A op \in {"scheduler.init_noise_sigma", "unet", "scheduler.step",
                            "vae.decode", "feature_extractor", "safety_checker"} :
                    CallsTo(rr, op) = {}
              /\ ext \in ExtTensors
              /\ rr.out = <<>>

C5_Witness ==
    /\ run[1].entry = "generate"
    /\ run[1].error = "ValueError:device"
    /\ scheduler.init_noise_sigma > 1

\* C6: a supplied latent whose shape is not (batch, in_channels, height/8,
\* width/8) ends generate with the shape error, with no state emitted and no
\* denoising step; one of that shape on the denoiser's device is accepted
\* and the step -1 state carries a latent of that shape.
C6_LatentShapeChecked ==
    \A r \in Runs :
        LET rr == run[r]
        IN  (/\ rr.entry \in {"generate", "__call__"}
             /\ rr.args.latents = "ext"
             /\ rr.pc # "created"
             /\ rr.args.height % 8 = 0 /\ rr.args.width % 8 = 0) =>
              /\ ext.shape # ExpectedShape(rr) =>
                    /\ rr.pc = "raised"
                    /\ rr.error \in {"ValueError:shape", "text_encoder"}
                    /\ rr.out = <<>>
                    /\ CallsTo(rr, "unet") = {}
              /\ (ext.shape = ExpectedShape(rr) /\ ext.device = "cuda") =>
                    /\ rr.error \notin {"ValueError:shape", "ValueError:device"}
                    /\ rr.error \in {"none", "AssertionError"} => rr.out # <<>>
                    /\ rr.out # <<>> => rr.out[1].latents.shape = ExpectedShape(rr)

C6_Witness ==
    /\ run[1].entry = "generate"
    /\ run[1].args.latents = "ext"
    /\ ext.shape # ExpectedShape(run[1])
    /\ run[1].error = "ValueError:shape"

C6_WitnessAccepted ==
    /\ run[1].entry = "generate"
    /\ run[1].args.latents = "ext"
    /\ ext.shape = <<2, 4, 1, 1>>
    /\ run[1].out # <<>>

\* the intermediate states among the elements of a sequence
StatesOf(out) == SelectSeq(out, LAMBDA e : e.kind = "state")

\* C7 as stated: __call__ and image_from_embeddings give a callback every
\* emitted element, the final output included.
C7_CallbackPerElement ==
    \A r \in Runs :
        LET rr == run[r]
        IN  (rr.entry \in {"__call__", "image_from_embeddings"} /\ rr.args.callback) =>
              rr.callbacks = rr.out

\* C7, amended: __call__ gives a callback every emitted element in order,
\* the final output included (N+2 invocations); image_from_embeddings gives
\* it the intermediate states only, in order (N+1 invocations), never the
\* final output.
C7_CallbackPerState ==
    \A r \in Runs :
        LET rr == run[r]
            N == rr.args.num_inference_steps
        IN  /\ (rr.entry = "__call__" /\ rr.args.callback) =>
                  /\ rr.callbacks = rr.out
                  /\ rr.returned => Len(rr.callbacks) = N + 2
            /\ (rr.entry = "image_from_embeddings" /\ rr.args.callback) =>
                  /\ rr.callbacks = StatesOf(rr.out)
                  /\ rr.returned => Len(rr.callbacks) = N + 1 /\ Len(rr.out) = N + 2
            /\ ~rr.args.callback => rr.callbacks = <<>>

C7_Witness ==
    /\ run[1].entry = "image_from_embeddings"
    /\ run[1].args.callback
    /\ run[1].returned
    /\ run[1].args.num_inference_steps >= 2
    /\ Len(run[1].callbacks) = run[1].args.num_inference_steps + 1

\* C8: an exception of the denoiser or of the scheduler in step k ends the
\* run with that exception: no state with step >= k and no final output is
\* emitted, the decoder and the safety classifier are never invoked, step k
\* is not tried again, and __call__ does not return.
C8_StepErrorIsFatal ==
    \A r \in Runs :
        LET rr == run[r]
            k == Cardinality(CallsTo(rr, "unet")) - 1
        IN  rr.error \in {"unet", "scheduler"} =>
              /\ rr.pc = "raised"
              /\ rr.calls[Len(rr.calls)].op =
                    (IF rr.error = "unet" THEN "unet" ELSE "scheduler.step")
              /\ Len(rr.out) = k + 1
              /\ \A j \in DOMAIN rr.out : rr.out[j].kind = "state" /\ rr.out[j].step < k
              /\ \A op \in {"vae.decode", "feature_extractor", "safety_checker"} :
                    CallsTo(rr, op) = {}
              /\ ~rr.returned
              /\ rr.result.kind # "final"

C8_Witness ==
    /\ run[1].entry = "__call__"
    /\ run[1].error = "scheduler"
    /\ Len(run[1].out) >= 2

\* C9: every intermediate state of one sequence carries the same run_id; a
\* supplied run_id is carried unchanged; when none is supplied one is
\* generated, once, at the start of the run.
C9_RunIdStable ==
    \A r \in Runs :
        LET rr == run[r]
        IN  rr.out # <<>> =>
              /\ \A k \in DOMAIN rr.out :
                    rr.out[k].kind = "state" => rr.out[k].run_id = rr.out[1].run_id
              /\ rr.args.run_id # "None" =>
                    /\ rr.out[1].run_id = rr.args.run_id
                    /\ CallsTo(rr, "secrets.token_urlsafe") = {}
              /\ rr.args.run_id = "None" =>
                    /\ rr.out[1].run_id \in Tokens
                    /\ Cardinality(CallsTo(rr, "secrets.token_urlsafe")) = 1

C9_Witness ==
    /\ run[1].pc = "exhausted"
    /\ run[1].args.run_id = "None"
    /\ Len(run[1].out) >= 4
    /\ run[1].out[3].run_id = "tok-2"

\* C10: with guidance_scale g > 1 and the denoiser's output u (first half)
\* and c (second half), the prediction handed to the scheduler is
\* u + g * (c - u), element by element.
C10_GuidanceFormula ==
    (guide.applied /\ guide.guidance_scale > 1) =>
        LET b == Len(guide.sample) \div 2
        IN  /\ Len(guide.noise_pred) = b
            /\ \A i \in 1..b :
                  guide.noise_pred[i] =
                      guide.sample[i]
                        + guide.guidance_scale * (guide.sample[b + i] - guide.sample[i])

C10_Witness ==
    /\ guide.applied
    /\ guide.guidance_scale = 3
    /\ guide.sample = <<1, 0, -1, 1>>
    /\ guide.noise_pred = <<-5, 3>>

\* the conditional embeddings of run rr: the encoded prompt in generate and
\* __call__, the caller's embeddings in the embeddings-driven entry points
ConditionalOnly(rr) ==
    IF rr.entry \in {"generate", "__call__"}
    THEN [i \in DOMAIN rr.args.prompt.items |-> rr.args.prompt.items[i] + 10]
    ELSE rr.args.text_embeddings

\* C11: with guidance_scale <= 1 a step does not double the latent batch,
\* calls the denoiser once, on the conditional embeddings only, and hands
\* the scheduler exactly the denoiser's prediction; generate builds no
\* opposing-prompt embedding.
C11_UnguidedStep ==
    \A r \in Runs :
        LET rr == run[r]
        IN  (rr.entry # "none" /\ rr.args.guidance_scale <= 1) =>
              /\ \A k \in DOMAIN rr.calls :
                    LET c == rr.calls[k]
                    IN  /\ c.op = "unet" =>
                              /\ c.b = ConditionalOnly(rr)
                              /\ k < Len(rr.calls) =>
                                    /\ rr.calls[k + 1].op = "scheduler.step"
                                    /\ Len(c.a) = Len(rr.calls[k + 1].b)
                                    /\ rr.calls[k + 1].a = Unet(c.a, c.t, c.b)
                        /\ c.op = "scheduler.step" =>
                              /\ k > 1
                              /\ rr.calls[k - 1].op = "unet"
                              /\ rr.calls[k - 1].t = c.t
              /\ rr.entry \in {"generate", "__call__"} =>
                    /\ Cardinality(CallsTo(rr, "tokenizer")) <= 1
                    /\ Cardinality(CallsTo(rr, "text_encoder")) <= 1
                    /\ rr.out # <<>> => rr.text_embeddings = ConditionalOnly(rr)

C11_Witness ==
    /\ run[1].entry = "generate"
    /\ run[1].args.guidance_scale = 1
    /\ run[1].args.opposing_prompt.given
    /\ Len(run[1].args.prompt.items) = 2
    /\ run[1].pc = "exhausted"
    /\ Cardinality(CallsTo(run[1], "unet")) = 2

\* the images the decoder made of the latent values it was called with
DecodedBy(call) ==
    [i \in DOMAIN call.a |-> IF call.a[i] < 0 THEN 0 ELSE IF call.a[i] > 1 THEN 1 ELSE call.a[i]]

\* C12: without feature extractor or without safety classifier the screening
\* is skipped without error, the classifier is never called, the final
\* output carries the decoded images and an empty flag list; with both, the
\* classifier is called once on the decoded images and the final output
\* carries its screened images and its flags, one per image.
C12_SafetyScreening ==
    \A r \in Runs :
        LET rr == run[r]
            configured == safety.feature_extractor /\ safety.safety_checker
        IN  /\ ~configured =>
                  /\ CallsTo(rr, "safety_checker") = {}
                  /\ CallsTo(rr, "feature_extractor") = {}
                  /\ rr.error # "safety_checker"
            /\ (rr.out # <<>> /\ Last(rr.out).kind = "final") =>
                  LET f == Last(rr.out)
                      decoded == DecodedBy(rr.calls[CHOOSE k \in CallsTo(rr, "vae.decode") : TRUE])
                  IN  /\ Cardinality(CallsTo(rr, "vae.decode")) = 1
                      /\ ~configured =>
                            /\ f.images = decoded
                            /\ f.nsfw_content_detected = <<>>
                      /\ configured =>
                            /\ Cardinality(CallsTo(rr, "safety_checker")) = 1
                            /\ \A k \in CallsTo(rr, "safety_checker") : rr.calls[k].a = decoded
                            /\ Len(f.nsfw_content_detected) = Len(decoded)
                            /\ Len(f.images) = Len(decoded)
                            /\ \A i \in DOMAIN decoded :
                                  f.images[i] = IF f.nsfw_content_detected[i] THEN 0 ELSE decoded[i]

C12_Witness ==
    /\ safety.feature_extractor /\ safety.safety_checker
    /\ run[1].pc = "exhausted"
    /\ Last(run[1].out).nsfw_content_detected = <<TRUE, FALSE>>

C12_WitnessSkipped ==
    /\ safety.feature_extractor /\ ~safety.safety_checker
    /\ run[1].pc = "exhausted"
    /\ Len(Last(run[1].out).images) = 2
    /\ Last(run[1].out).nsfw_content_detected = <<>>

\* C13: a generate_from_embeddings run on a scheduler that never had
\* set_timesteps called cannot reach its final output: it ends with a
\* collaborator's error, and in particular never goes from the state of
\* step -1 straight to the final output.
C13_UnsetSchedulerFails ==
    \A r \in Runs :
        (run[r].entry = "generate_from_embeddings" /\ ~scheduler.is_set)
        => /\ run[r].pc \notin {"suspended_final", "exhausted"}
           /\ ~(\E k \in DOMAIN run[r].out :
                    /\ run[r].out[k].kind = "final"
                    /\ k = 2)

\* C14: generate leaves the latent tensor the caller supplied as it was, so
\* that two successive runs given the same tensor start from the same latent
\* in their state of step -1.
C14_LatentReusable ==
    /\ \A r \in Runs :
          (run[r].args.latents = "ext" /\ run[r].out # <<>>)
          => ext.val = run[1].initial.val
    /\ (run[1].out # <<>> /\ run[2].out # <<>>)
       => run[2].out[1].latents = run[1].out[1].latents

\* C15: when __call__ or image_from_embeddings returns, what it returns is
\* the final output, the last element of the drained sequence, every element
\* before it being an intermediate state; image_from_embeddings has set the
\* schedule for the requested number of steps before anything else happens,
\* and its completed run made exactly that many denoising steps.
C15_WrappersReturnFinal ==
    \A r \in Runs :
        LET rr == run[r]
            n == rr.args.num_inference_steps
        IN  /\ (rr.entry \in {"__call__", "image_from_embeddings"} /\ rr.returned)
               => /\ rr.pc = "exhausted"
                  /\ rr.error = "none"
                  /\ rr.result.kind = "final"
                  /\ rr.result = Last(rr.out)
                  /\ \A k \in 1..(Len(rr.out) - 1) : rr.out[k].kind = "state"
            /\ rr.entry = "image_from_embeddings"
               => /\ rr.calls # <<>>
                  /\ rr.calls[1] = Call("scheduler.set_timesteps", n, <<>>, <<>>)
                  /\ rr.out # <<>>
                     => scheduler.is_set /\ scheduler.num_inference_steps = n
                  /\ rr.returned
                     => /\ Cardinality(CallsTo(rr, "unet")) = n
                        /\ Cardinality(CallsTo(rr, "scheduler.step")) = n
                        /\ Len(StatesOf(rr.out)) = n + 1

\* image_from_embeddings returned after MaxSteps steps
C15_Witness ==
    /\ run[1].entry = "image_from_embeddings"
    /\ run[1].returned
    /\ run[1].args.num_inference_steps = MaxSteps
    /\ Cardinality(CallsTo(run[1], "unet")) = MaxSteps
    /\ run[1].result.kind = "final"

\* __call__ returned
C15_WitnessCall ==
    /\ run[1].entry = "__call__"
    /\ run[1].returned
    /\ run[1].result = Last(run[1].out)
    /\ Len(run[1].out) = MaxSteps + 2

\* the elements of out that are final outputs
FinalsOf(out) == SelectSeq(out, LAMBDA e : e.kind = "final")

\* C16: a run goes through initial state, steps, decoding, screening and
\* final output in that order: the decoder is called at most once and only
\* when every step of the schedule has run and its state has been emitted,
\* the screening collaborators are called only after the decoder, and the
\* final output is emitted once, last, after the decoding and (when a
\* classifier is configured) the screening.
C16_PhaseOrder ==
    \A r \in Runs :
        LET rr == run[r]
            decodes == CallsTo(rr, "vae.decode")
            screens == CallsTo(rr, "feature_extractor") \cup CallsTo(rr, "safety_checker")
            steps == CallsTo(rr, "unet") \cup CallsTo(rr, "scheduler.step")
        IN  /\ Cardinality(decodes) <= 1
            /\ \A d \in decodes :
                  /\ \A k \in steps : k < d
                  /\ Cardinality(CallsTo(rr, "scheduler.step")) = Len(scheduler.timesteps)
                  /\ Len(StatesOf(rr.out)) = Len(scheduler.timesteps) + 1
                  /\ \A k \in 1..(Len(scheduler.timesteps) + 1) :
                        rr.out[k].kind = "state" /\ rr.out[k].step = k - 2
            /\ \A k \in screens : \E d \in decodes : d < k
            /\ Len(FinalsOf(rr.out)) <= 1
            /\ FinalsOf(rr.out) # <<>>
               => /\ Last(rr.out).kind = "final"
                  /\ Cardinality(decodes) = 1
                  /\ (safety.feature_extractor /\ safety.safety_checker)
                     => CallsTo(rr, "safety_checker") # {}

\* a drained run of MaxSteps steps whose output went through the classifier
C16_Witness ==
    /\ run[1].pc = "exhausted"
    /\ Len(run[1].out) = MaxSteps + 2
    /\ CallsTo(run[1], "vae.decode") # {}
    /\ CallsTo(run[1], "safety_checker") # {}

\* C17: the sequence is produced on demand.  A generator nobody has pulled
\* from has run none of its body; while it is suspended after k elements
\* exactly k - 1 denoising steps have run and neither the decoder nor the
\* screening has been called; whatever happens, at most as many steps have
\* been started as elements were asked for, less one; without a request for
\* the element after the last state the decoder is never called.
C17_Lazy ==
    \A r \in Runs :
        LET rr == run[r]
            unets == Cardinality(CallsTo(rr, "unet"))
            late == CallsTo(rr, "vae.decode") \cup CallsTo(rr, "feature_extractor")
                        \cup CallsTo(rr, "safety_checker")
        IN  /\ rr.pc = "created"
               => /\ rr.out = <<>>
                  /\ \A k \in DOMAIN rr.calls : rr.calls[k].op = "scheduler.set_timesteps"
                  /\ rr.entry # "image_from_embeddings" => rr.calls = <<>>
            /\ rr.pc \in {"suspended_init", "suspended_step"}
               => /\ unets = Len(rr.out) - 1
                  /\ Cardinality(CallsTo(rr, "scheduler.step")) = Len(rr.out) - 1
                  /\ late = {}
            /\ rr.pc = "raised" => unets <= Len(rr.out)
            /\ rr.pc \in {"suspended_final", "exhausted"} => unets = Len(rr.out) - 2
            /\ late # {} => Len(StatesOf(rr.out)) = Len(scheduler.timesteps) + 1

\* a consumer that has pulled two of the MaxSteps + 2 elements and may stop
C17_Witness ==
    /\ run[1].pc = "suspended_step"
    /\ run[1].iter # <<>>
    /\ Len(run[1].out) = 2
    /\ Cardinality(CallsTo(run[1], "unet")) = 1
    /\ CallsTo(run[1], "vae.decode") = {}

\* C18: in generate the text embeddings are computed first, then
\* set_timesteps(num_inference_steps) is called, then the latents are
\* initialised: every tokenizer and text encoder call precedes the one
\* set_timesteps call, every torch.randn call and every read of
\* init_noise_sigma follows it, and no state is emitted without it.
C18_GenerateOrder ==
    \A r \in Runs :
        LET rr == run[r]
            sets == CallsTo(rr, "scheduler.set_timesteps")
            texts == CallsTo(rr, "tokenizer") \cup CallsTo(rr, "text_encoder")
            inits == CallsTo(rr, "torch.randn") \cup CallsTo(rr, "scheduler.init_noise_sigma")
        IN  rr.entry \in {"generate", "__call__"}
            => /\ Cardinality(sets) <= 1
               /\ \A s \in sets :
                     /\ rr.calls[s].t = rr.args.num_inference_steps
                     /\ CallsTo(rr, "text_encoder") # {}
                     /\ \A k \in texts : k < s
               /\ \A k \in inits : \E s \in sets : s < k
               /\ rr.out # <<>>
                  => /\ sets # {}
                     /\ CallsTo(rr, "scheduler.init_noise_sigma") # {}
                     /\ scheduler.is_set
                     /\ scheduler.num_inference_steps = rr.args.num_inference_steps

\* generate has emitted its state of step -1 from latents it drew itself
C18_Witness ==
    /\ run[1].entry = "generate"
    /\ run[1].pc = "suspended_init"
    /\ CallsTo(run[1], "text_encoder") # {}
    /\ CallsTo(run[1], "torch.randn") # {}
    /\ CallsTo(run[1], "scheduler.set_timesteps") # {}

\* the embeddings of the prompt of run rr, and of what stands against it: the
\* opposing prompt, or one blank string per prompt
PromptEmbeddings(rr) == TextEncoder(Tokenize(rr.args.prompt.items))

OpposingEmbeddings(rr) ==
    IF rr.args.opposing_prompt.given
    THEN TextEncoder(Tokenize(rr.args.opposing_prompt.items))
    ELSE TextEncoder(Tokenize([i \in DOMAIN rr.args.prompt.items |-> 0]))

\* C19: in a guided run of generate the embeddings are the opposing prompt's
\* (or the blanks') followed by the prompt's; every denoiser call gets the
\* latents twice with these embeddings, and what the scheduler receives for
\* batch element i is the prediction for the opposing prompt plus
\* guidance_scale times (prediction for the prompt - prediction for the
\* opposing prompt).
C19_GuidanceOrder ==
    \A r \in Runs :
        LET rr == run[r]
            g == rr.args.guidance_scale
            P == PromptEmbeddings(rr)
            U == OpposingEmbeddings(rr)
            b == Len(rr.args.prompt.items)
        IN  (rr.entry \in {"generate", "__call__"} /\ g > 1 /\ rr.out # <<>>)
            => /\ rr.text_embeddings = Cat(U, P)
               /\ \A k \in CallsTo(rr, "unet") :
                     /\ rr.calls[k].b = Cat(U, P)
                     /\ Len(rr.calls[k].a) = 2 * b
               /\ \A k \in CallsTo(rr, "scheduler.step") :
                     LET c == rr.calls[k]
                         against == Unet(c.b, c.t, U)
                         for == Unet(c.b, c.t, P)
                     IN  /\ Len(c.a) = b
                         /\ Len(c.b) = b
                         /\ \A i \in 1..b : c.a[i] = against[i] + g * (for[i] - against[i])

\* a guided step of generate with an opposing prompt
C19_Witness ==
    /\ run[1].entry = "generate"
    /\ run[1].args.guidance_scale = 2
    /\ run[1].args.opposing_prompt.given
    /\ Len(run[1].args.prompt.items) = 2
    /\ PromptEmbeddings(run[1]) # OpposingEmbeddings(run[1])
    /\ CallsTo(run[1], "scheduler.step") # {}

\* a guided step of generate without an opposing prompt
C19_WitnessBlank ==
    /\ run[1].entry = "generate"
    /\ run[1].args.guidance_scale = 2
    /\ ~run[1].args.opposing_prompt.given
    /\ CallsTo(run[1], "scheduler.step") # {}

\* the calls of run rr to collaborator op, in the order they were made
CallSeq(rr, op) == SelectSeq(rr.calls, LAMBDA c : c.op = op)

\* C20: the latent is chained through the loop.  The j-th denoiser call and
\* the j-th scheduler step are made at the j-th timestep of the schedule on
\* the latent carried by the state emitted just before (the state of step -1
\* for the first); the state of step j - 1 carries that timestep and the
\* latent that scheduler step returned; there is one denoiser call and one
\* scheduler step per emitted step; the decoder gets the latent of the last
\* state.
C20_LatentChained ==
    \A r \in Runs :
        LET rr == run[r]
            g == rr.args.guidance_scale
            unets == CallSeq(rr, "unet")
            steps == CallSeq(rr, "scheduler.step")
            states == StatesOf(rr.out)
        IN  /\ Len(steps) <= Len(unets)
            /\ Len(unets) <= Len(steps) + 1
            /\ \A j \in 1..Len(unets) :
                  /\ j <= Len(states)
                  /\ unets[j].t = scheduler.timesteps[j]
                  /\ unets[j].a = IF g > 1
                                  THEN Cat(states[j].latents.val, states[j].latents.val)
                                  ELSE states[j].latents.val
            /\ \A j \in 1..Len(steps) :
                  /\ steps[j].t = scheduler.timesteps[j]
                  /\ steps[j].b = states[j].latents.val
            /\ \A j \in 2..Len(states) :
                  /\ j - 1 <= Len(steps)
                  /\ states[j].step = j - 2
                  /\ states[j].timestep = scheduler.timesteps[j - 1]
                  /\ states[j].latents =
                        PrevSample(steps[j - 1].a, steps[j - 1].t, states[j - 1].latents)
            /\ (rr.pc # "raised" /\ rr.out # <<>>)
               => Len(unets) = Len(states) - 1 /\ Len(steps) = Len(states) - 1
            /\ \A d \in CallsTo(rr, "vae.decode") :
                  /\ Len(states) = Len(scheduler.timesteps) + 1
                  /\ rr.calls[d].a = Last(states).latents.val

\* a drained guided run of MaxSteps steps
C20_Witness ==
    /\ run[1].pc = "exhausted"
    /\ run[1].args.guidance_scale = 2
    /\ Len(CallSeq(run[1], "scheduler.step")) = MaxSteps
    /\ Len(StatesOf(run[1].out)) = MaxSteps + 1
    /\ CallsTo(run[1], "vae.decode") # {}
    /\ run[1].out[2].latents # run[1].out[1].latents

\* C21: the AssertionError of __call__ and image_from_embeddings is never the
\* error the caller sees.  A drained generator has yielded at least the state
\* of step -1, so the wrapper holds a result when its loop ends; a generator
\* that ended without yielding anything ended with an exception, and it is
\* that exception which leaves the wrapper, nothing being returned.
C21_AssertionUnreachable ==
    \A r \in Runs :
        LET rr == run[r]
        IN  /\ rr.error # "AssertionError"
            /\ rr.entry \in {"__call__", "image_from_embeddings"}
               => /\ rr.pc = "exhausted"
                     => /\ rr.out # <<>>
                        /\ rr.out[1].kind = "state" /\ rr.out[1].step = -1
                        /\ rr.result # NoElement
                  /\ (rr.out = <<>> /\ rr.pc \notin {"idle", "created"})
                     => /\ rr.pc = "raised"
                        /\ rr.error \in {"ValueError:size", "ValueError:shape",
                                         "ValueError:device", "text_encoder"}
                        /\ ~rr.returned
                        /\ rr.result = NoElement

\* __call__ whose generator raised before yielding anything
C21_Witness ==
    /\ run[1].entry = "__call__"
    /\ run[1].pc = "raised"
    /\ run[1].out = <<>>
    /\ run[1].error = "ValueError:size"

\* image_from_embeddings whose loop ended with a result
C21_WitnessDrained ==
    /\ run[1].entry = "image_from_embeddings"
    /\ run[1].pc = "exhausted"
    /\ run[1].returned
    /\ run[1].result # NoElement

====
